---- MODULE Spec2Model ----
(***************************************************************************)
(* obsidian-vox: the transcription queue of TranscriptionProcessor         *)
(* (src/unnamed/part_014), its retry/backoff controller, the discovery     *)
(* scan, and the plugin wiring of src/src/main.ts that drives them.        *)
(*                                                                         *)
(* One step of the model is one run-to-completion piece of JavaScript: a   *)
(* handler runs from its entry to its next await.  p-queue (the PQueue     *)
(* object) is modelled by what its add/addAll/pause/start/clear and its    *)
(* task wrapper do to the waiting list, the pending count and the idle     *)
(* event.                                                                  *)
(***************************************************************************)
EXTENDS Integers, Sequences, FiniteSets, Bags, TLC

\* ---------------------------------------------------------------- bounds
\* The clock stops advancing here.
MaxTime == 1
\* Tasks the PQueue may hold at once, waiting or started.
MaxTasks == 2
\* What the user may do: create/rename events, settings saves, pauses and
\* resumes.
MaxUserOps == 1
\* queueFiles() calls that may be between their awaits at the same time.
MaxScans == 1
\* Attempts of one file that may fail.
MaxFails == 5

\* ------------------------------------------------------ program constants
\* new PQueue({ concurrency: 8 })
Concurrency == 8
\* const FILE_CHUNK_LIMIT = 24
FILE_CHUNK_LIMIT == 24
\* DEFAULT_SETTINGS.maxRetries
DefaultMaxRetries == 3
\* the null of finalizedAt / lastRetryAt
Null == -1

\* The content hashes of the audio files that may lie in the watched
\* directory; a file is identified with its hash.
Hashes == {1, 2}

QUEUED == "QUEUED"
PROCESSING_AUDIO == "PROCESSING_AUDIO"
TRANSCRIBING == "TRANSCRIBING"
COMPLETE == "COMPLETE"
FAILED == "FAILED"

\* Where an attempt (one processFile execution) is waiting:
\* transformAudio, transcribe, or generate + consolidateFiles.
Phases == {"audio", "transcribe", "consolidate"}

\* What an attempt can fail with: an axios error with status 429, another
\* axios error, or any other thrown error.
ErrorKinds == {"rate", "axios", "other"}

\* What the transcription call can resolve with (HTTP 200, a body): a
\* well-formed result, or one whose text is missing or empty, whose
\* segments are missing or not an array, or whose segments array is empty.
TranscriptionResults ==
    {"ok", "noText", "emptyText", "noSegments", "segmentsNotArray",
     "emptySegments"}

\* response.data of a result
ResponseData(r) ==
    [text |-> CASE r = "noText" -> "undefined"
                [] r = "emptyText" -> ""
                [] OTHER -> "text",
     segments |-> CASE r = "noSegments" -> "undefined"
                    [] r = "segmentsNotArray" -> "object"
                    [] r = "emptySegments" -> "[]"
                    [] OTHER -> "[segment]"]

\* JavaScript truthiness, Array.isArray and .length on these values
Truthy(v) == v \notin {"undefined", ""}

IsArray(v) == v \in {"[]", "[segment]"}

ArrayLength(v) == IF v = "[segment]" THEN 1 ELSE 0

VARIABLES
    items,        \* state.items: hash -> lifecycle record (tracked hashes only)
    running,      \* state.running
    queue,        \* PQueue: the tasks waiting to start, each processFile(h)
    inflight,     \* PQueue: the started tasks, a bag of [h, pc]
    paused,       \* PQueue.isPaused
    timers,       \* pending setTimeout re-enqueues, a bag of [h, due]
    scans,        \* queueFiles() calls in progress, a bag of scan records
    transcribed,  \* hashes recorded in a markdown output of the vault
    files,        \* the audio files in the watched directory
    settings,     \* this.settings: maxRetries, retryBaseDelayMs, retryMaxDelayMs
    plugin,       \* "constructed", "ready" (layout ready) or "unloaded"
    userOps,      \* user-caused events so far
    now,          \* the clock
    limits,       \* how far this run is explored: [tasks, userOps, scans,
                  \* fails, results]
    outcomes,     \* per hash: how many attempts have failed, and whether one
                  \* of them failed with a rate-limit error
    ev,           \* what the last step did: [op, h, kind, started, cleared,
                  \* notices]
    stability     \* a waitForFileStability call: its promise, its closure
                  \* variables, the time of its poll, what its polls saw

vars == <<items, running, queue, inflight, paused, timers, scans,
          transcribed, files, settings, plugin, userOps, now, limits,
          outcomes, ev, stability>>

\* ------------------------------------------------------------ the machine
\* The handlers below are written as functions on a record m of the fields
\* they change; an action evaluates its handler on Cur and commits.
Cur ==
    [items |-> items, running |-> running, queue |-> queue,
     inflight |-> inflight, paused |-> paused, timers |-> timers,
     scans |-> scans, transcribed |-> transcribed, started |-> {},
     cleared |-> 0, notices |-> {}]

\* new Notice(...): the notices a step shows, by what they say.
Notify(m, notice) == [m EXCEPT !.notices = @ \cup {notice}]

\* A step may leave at most limits.scans scans in progress and limits.tasks
\* tasks in the PQueue.
Fits(m) ==
    /\ BagCardinality(m.scans) <= limits.scans
    /\ Len(m.queue) + BagCardinality(m.inflight) <= limits.tasks

\* The handler's result m is computed once and becomes the next state.
Commit(m, op, h, kind) ==
    \E c \in {m} :
        /\ Fits(c)
        /\ op = "fail" => outcomes[h].failed < limits.fails
        /\ items' = c.items
        /\ running' = c.running
        /\ queue' = c.queue
        /\ inflight' = c.inflight
        /\ paused' = c.paused
        /\ timers' = c.timers
        /\ scans' = c.scans
        /\ transcribed' = c.transcribed
        /\ limits' = limits
        /\ stability' = stability
        /\ ev' = [op |-> op, h |-> h, kind |-> kind, started |-> c.started,
                  cleared |-> c.cleared, notices |-> c.notices]
        /\ outcomes' =
               IF op = "fail"
               THEN [outcomes EXCEPT ![h].failed = @ + 1,
                                     ![h].rateLimited = @ \/ kind = "rate"]
               ELSE outcomes

One(x) == SetToBag({x})

NoEvent ==
    [op |-> "init", h |-> 0, kind |-> "", started |-> {}, cleared |-> 0,
     notices |-> {}]

\* No waitForFileStability call is being followed.
NoWait ==
    [pc |-> "idle", stabilityDelayMs |-> 0, checkIntervalMs |-> 0,
     lastSize |-> Null, stableStartTime |-> Null, checkCount |-> 0,
     at |-> 0, seen |-> <<>>, error |-> "", timer |-> FALSE]

\* setCanditateStatus building a fresh record also for a tracked hash.
setCanditateStatus_freshRecord(m, h, status) ==
    LET finalized == status = COMPLETE \/ status = FAILED
        finalizedAt == IF finalized THEN now ELSE Null
        rec == [status |-> status, retryCount |-> 0,
                finalizedAt |-> finalizedAt, lastRetryAt |-> Null]
    IN [m EXCEPT !.running = ~m.paused,
                 !.items = [x \in (DOMAIN m.items) \cup {h} |->
                               IF x = h THEN rec ELSE m.items[x]]]

\* setCanditateStatus stamping finalizedAt once and keeping it from then on.
setCanditateStatus_stampsOnce(m, h, status) ==
    LET finalized == status = COMPLETE \/ status = FAILED
        finalizedAt == IF finalized THEN now ELSE Null
        rec == IF h \in DOMAIN m.items
               THEN [m.items[h] EXCEPT
                        !.finalizedAt = IF @ # Null THEN @ ELSE finalizedAt,
                        !.status = status]
               ELSE [status |-> status, retryCount |-> 0,
                     finalizedAt |-> finalizedAt, lastRetryAt |-> Null]
    IN [m EXCEPT !.running = ~m.paused,
                 !.items = [x \in (DOMAIN m.items) \cup {h} |->
                               IF x = h THEN rec ELSE m.items[x]]]

\* setCanditateStatus leaving the timestamp of a record that is re-opened.
setCanditateStatus_keepsFinalizedAt(m, h, status) ==
    LET finalized == status = COMPLETE \/ status = FAILED
        rec == IF h \in DOMAIN m.items
               THEN [m.items[h] EXCEPT
                        !.finalizedAt = IF finalized THEN now ELSE @,
                        !.status = status]
               ELSE [status |-> status, retryCount |-> 0,
                     finalizedAt |-> IF finalized THEN now ELSE Null,
                     lastRetryAt |-> Null]
    IN [m EXCEPT !.running = ~m.paused,
                 !.items = [x \in (DOMAIN m.items) \cup {h} |->
                               IF x = h THEN rec ELSE m.items[x]]]

\* setCanditateStatus: the single mutation point of a record's status.
setCanditateStatus(m, h, status) ==
    LET finalized == status = COMPLETE \/ status = FAILED
        finalizedAt == IF finalized THEN now ELSE Null
        rec == IF h \in DOMAIN m.items
               THEN [m.items[h] EXCEPT !.finalizedAt = finalizedAt,
                                       !.status = status]
               ELSE [status |-> status, retryCount |-> 0,
                     finalizedAt |-> finalizedAt, lastRetryAt |-> Null]
    IN [m EXCEPT !.running = ~m.paused,
                 !.items = [x \in (DOMAIN m.items) \cup {h} |->
                               IF x = h THEN rec ELSE m.items[x]]]

\* incrementRetryCount
incrementRetryCount(m, h) ==
    IF h \in DOMAIN m.items
    THEN [m EXCEPT !.items[h].retryCount = @ + 1,
                   !.items[h].lastRetryAt = now]
    ELSE m

\* 2^n
RECURSIVE Pow2(_)
Pow2(n) == IF n = 0 THEN 1 ELSE 2 * Pow2(n - 1)

Min(a, b) == IF a <= b THEN a ELSE b

\* calculateBackoffDelay without the Math.min cap.
BackoffDelay_uncapped(base, max, retryCount) ==
    base * Pow2(retryCount)

\* calculateBackoffDelay on explicit settings
BackoffDelay(base, max, retryCount) ==
    LET geometricDelay == base * Pow2(retryCount)
    IN Min(geometricDelay, max)

\* calculateBackoffDelay
calculateBackoffDelay(retryCount) ==
    BackoffDelay(settings.retryBaseDelayMs, settings.retryMaxDelayMs,
                 retryCount)

\* hasExceededMaxRetries excluding nothing.
hasExceededMaxRetries_never(its, h) ==
    FALSE

\* hasExceededMaxRetries keyed on FAILED alone.
hasExceededMaxRetries_anyFailed(its, h) ==
    IF h \notin DOMAIN its
    THEN FALSE
    ELSE its[h].status = FAILED

\* hasExceededMaxRetries
hasExceededMaxRetries(its, h) ==
    IF h \notin DOMAIN its
    THEN FALSE
    ELSE /\ its[h].retryCount >= settings.maxRetries
         /\ its[h].status = FAILED

\* ---------------------------------------------------------------- PQueue
Pending(m) == BagCardinality(m.inflight)

\* queueFiles() up to the hashing of the first file: the directory is
\* enumerated (getUnprocessedFiles) and the transcribed outputs are read
\* (getTranscribedFiles); a markdown output is taken to be visible to the
\* vault as soon as consolidateFiles has written it.
StartScan(m) ==
    [m EXCEPT !.scans = @ (+) One([todo |-> files, found |-> <<>>,
                                   tr |-> m.transcribed])]

\* The synchronous head of processFile, run by PQueue when the task starts.
StartTask(m, h) ==
    LET m1 == [m EXCEPT !.inflight = @ (+) One([h |-> h, pc |-> "audio"]),
                        !.started = @ \cup {h}]
    IN setCanditateStatus(m1, h, PROCESSING_AUDIO)

\* _tryToStartAnother not looking at isPaused.
CanStart_ignoresPause(m) ==
    m.queue # <<>> /\ Pending(m) < Concurrency

\* _tryToStartAnother admitting a task while `concurrency` are pending.
CanStart_oneTooMany(m) ==
    m.queue # <<>> /\ ~m.paused /\ Pending(m) <= Concurrency

CanStart(m) ==
    m.queue # <<>> /\ ~m.paused /\ Pending(m) < Concurrency

\* _tryToStartAnother emitting no "idle".
TryToStartAnother_noIdle(m) ==
    IF m.queue = <<>>
    THEN m
    ELSE IF CanStart(m)
         THEN StartTask([m EXCEPT !.queue = Tail(@)], Head(m.queue))
         ELSE m

\* PQueue._tryToStartAnother: on an empty waiting list it emits "idle" when
\* nothing is pending (the processor's listener calls queueFiles); otherwise
\* it starts the head task when the queue is not paused and a slot is free.
TryToStartAnother(m) ==
    IF m.queue = <<>>
    THEN IF Pending(m) = 0 THEN StartScan(m) ELSE m
    ELSE IF CanStart(m)
         THEN StartTask([m EXCEPT !.queue = Tail(@)], Head(m.queue))
         ELSE m

\* PQueue.add
QueueAdd(m, h) ==
    TryToStartAnother([m EXCEPT !.queue = Append(@, h)])

\* w, after v has been evaluated.  TLC evaluates the argument of an operator
\* when it is first used; a loop over a long list goes through Evaluated to
\* have each turn computed before the next, as the code runs it.
Evaluated(v, w) == IF v = v THEN w ELSE w

\* PQueue.addAll: add, in order
RECURSIVE QueueAddAll(_, _)
QueueAddAll(m, hs) ==
    IF hs = <<>>
    THEN m
    ELSE LET m1 == QueueAdd(m, Head(hs))
             rest == Tail(hs)
         IN Evaluated(<<m1, rest>>, QueueAddAll(m1, rest))

\* PQueue.start -> _processQueue: start tasks while one can be started
RECURSIVE ProcessQueue(_)
ProcessQueue(m) ==
    IF CanStart(m)
    THEN ProcessQueue(TryToStartAnother(m))
    ELSE TryToStartAnother(m)

\* PQueue.start clearing the pause without starting what waits.
QueueStart_startsNothing(m) ==
    [m EXCEPT !.paused = FALSE]

\* PQueue.start
QueueStart(m) ==
    IF ~m.paused THEN m ELSE ProcessQueue([m EXCEPT !.paused = FALSE])

\* PQueue.clear: the waiting tasks are dropped, the started ones are not
\* touched.
QueueClear(m) ==
    [m EXCEPT !.queue = <<>>, !.cleared = @ + Len(m.queue)]

\* processFile awaiting the backoff delay itself: the task does not end while
\* a retry timer of its hash is pending.
TaskDone_heldDuringBackoff(m, h, pc) ==
    IF \E t \in BagToSet(m.timers) : t.h = h
    THEN m
    ELSE TryToStartAnother(
             [m EXCEPT !.inflight = @ (-) One([h |-> h, pc |-> pc])])

\* The end of a task: PQueue._next
TaskDone(m, h, pc) ==
    TryToStartAnother([m EXCEPT !.inflight = @ (-) One([h |-> h, pc |-> pc])])

\* ------------------------------------------------------- retry controller
\* handleTranscriptionError giving up one failure late (> for >=).
handleTranscriptionError_lateCutoff(m, h, kind) ==
    LET currentRetryCount ==
            IF h \in DOMAIN m.items THEN m.items[h].retryCount ELSE 0
        m1 == incrementRetryCount(m, h)
        newRetryCount == currentRetryCount + 1
        mh == IF kind = "axios" THEN Notify(m1, "host") ELSE m1
    IN IF kind = "rate"
       THEN LET m2 == setCanditateStatus(Notify(m1, "limit"), h, FAILED)
            IN [m2 EXCEPT !.paused = TRUE]
       ELSE IF newRetryCount > settings.maxRetries
            THEN Notify(setCanditateStatus(mh, h, FAILED), "failed")
            ELSE LET delay == calculateBackoffDelay(currentRetryCount)
                     m2 == setCanditateStatus(mh, h, QUEUED)
                 IN [m2 EXCEPT !.timers =
                         @ (+) One([h |-> h, due |-> now + delay])]

\* handleTranscriptionError counting only the failures it may retry.
handleTranscriptionError_rateLimitUncounted(m, h, kind) ==
    LET currentRetryCount ==
            IF h \in DOMAIN m.items THEN m.items[h].retryCount ELSE 0
        m1 == incrementRetryCount(m, h)
        newRetryCount == currentRetryCount + 1
        mh == IF kind = "axios" THEN Notify(m1, "host") ELSE m1
    IN IF kind = "rate"
       THEN LET m2 == setCanditateStatus(Notify(m, "limit"), h, FAILED)
            IN [m2 EXCEPT !.paused = TRUE]
       ELSE IF newRetryCount >= settings.maxRetries
            THEN Notify(setCanditateStatus(mh, h, FAILED), "failed")
            ELSE LET delay == calculateBackoffDelay(currentRetryCount)
                     m2 == setCanditateStatus(mh, h, QUEUED)
                 IN [m2 EXCEPT !.timers =
                         @ (+) One([h |-> h, due |-> now + delay])]

\* handleTranscriptionError without the return of its rate-limit branch.
handleTranscriptionError_rateFallsThrough(m, h, kind) ==
    LET currentRetryCount ==
            IF h \in DOMAIN m.items THEN m.items[h].retryCount ELSE 0
        m1 == incrementRetryCount(m, h)
        newRetryCount == currentRetryCount + 1
        m2 == IF kind = "rate"
              THEN [setCanditateStatus(Notify(m1, "limit"), h, FAILED)
                       EXCEPT !.paused = TRUE]
              ELSE IF kind = "axios" THEN Notify(m1, "host") ELSE m1
    IN IF newRetryCount >= settings.maxRetries
       THEN Notify(setCanditateStatus(m2, h, FAILED), "failed")
       ELSE LET delay == calculateBackoffDelay(currentRetryCount)
                m3 == setCanditateStatus(m2, h, QUEUED)
            IN [m3 EXCEPT !.timers =
                    @ (+) One([h |-> h, due |-> now + delay])]

\* handleTranscriptionError pausing the queue when it gives a file up.
handleTranscriptionError_pausesOnGiveUp(m, h, kind) ==
    LET currentRetryCount ==
            IF h \in DOMAIN m.items THEN m.items[h].retryCount ELSE 0
        m1 == incrementRetryCount(m, h)
        newRetryCount == currentRetryCount + 1
        mh == IF kind = "axios" THEN Notify(m1, "host") ELSE m1
    IN IF kind = "rate"
       THEN LET m2 == setCanditateStatus(Notify(m1, "limit"), h, FAILED)
            IN [m2 EXCEPT !.paused = TRUE]
       ELSE IF newRetryCount >= settings.maxRetries
            THEN [Notify(setCanditateStatus(mh, h, FAILED), "failed")
                     EXCEPT !.paused = TRUE]
            ELSE LET delay == calculateBackoffDelay(currentRetryCount)
                     m2 == setCanditateStatus(mh, h, QUEUED)
                 IN [m2 EXCEPT !.timers =
                         @ (+) One([h |-> h, due |-> now + delay])]

\* handleTranscriptionError
handleTranscriptionError(m, h, kind) ==
    LET currentRetryCount ==
            IF h \in DOMAIN m.items THEN m.items[h].retryCount ELSE 0
        m1 == incrementRetryCount(m, h)
        newRetryCount == currentRetryCount + 1
        mh == IF kind = "axios" THEN Notify(m1, "host") ELSE m1
    IN IF kind = "rate"
       THEN LET m2 == setCanditateStatus(Notify(m1, "limit"), h, FAILED)
            IN [m2 EXCEPT !.paused = TRUE]
       ELSE IF newRetryCount >= settings.maxRetries
            THEN Notify(setCanditateStatus(mh, h, FAILED), "failed")
            ELSE LET delay == calculateBackoffDelay(currentRetryCount)
                     m2 == setCanditateStatus(mh, h, QUEUED)
                 IN [m2 EXCEPT !.timers =
                         @ (+) One([h |-> h, due |-> now + delay])]

\* --------------------------------------------------------------- actions
Init ==
    /\ items = <<>>
    /\ running = TRUE
    /\ queue = <<>>
    /\ inflight = EmptyBag
    /\ paused = FALSE
    /\ timers = EmptyBag
    /\ scans = EmptyBag
    /\ transcribed = {}
    /\ files \in {{}, {1}}
    /\ settings = [maxRetries |-> DefaultMaxRetries,
                   retryBaseDelayMs |-> 1, retryMaxDelayMs |-> 2]
    /\ outcomes = [h \in Hashes |-> [failed |-> 0, rateLimited |-> FALSE]]
    /\ plugin = "constructed"
    /\ userOps = 0
    /\ now = 0
    /\ limits = [tasks |-> MaxTasks, userOps |-> MaxUserOps,
                 scans |-> MaxScans, fails |-> MaxFails,
                 results |-> {"ok", "emptySegments"}]
    /\ ev = NoEvent
    /\ stability = NoWait

\* reset(settings) losing the session's records with the waiting tasks.
reset_forgetsRecords(m) ==
    [QueueClear(m) EXCEPT !.items = <<>>]

\* reset(settings): main.ts passes this.settings, the object the processor
\* was constructed with.
reset(m) ==
    QueueClear(m)

\* reset(settings) then queueFiles(): main.ts queueUnprocessedFiles
queueUnprocessedFiles(m) ==
    StartScan(reset(m))

\* onLayoutReady: the first queueUnprocessedFiles, the watcher registered
onLayoutReady ==
    /\ plugin = "constructed"
    /\ plugin' = "ready"
    /\ Commit(queueUnprocessedFiles(Cur), "onLayoutReady", 0, "")
    /\ UNCHANGED <<files, settings, userOps, now>>

\* unprocessed.forEach(setCanditateStatus(audio, QUEUED))
RECURSIVE MarkQueued(_, _)
MarkQueued(m, hs) ==
    IF hs = <<>>
    THEN m
    ELSE LET m1 == setCanditateStatus(m, Head(hs), QUEUED)
             rest == Tail(hs)
         IN Evaluated(<<m1, rest>>, MarkQueued(m1, rest))

\* queueFiles after getUnprocessedFiles has returned
queueFilesTail(m, unprocessed) ==
    IF Len(unprocessed) = 0
    THEN m
    ELSE Notify(QueueAddAll(MarkQueued(m, unprocessed), unprocessed), "added")

\* getUnprocessedFiles admitting a candidate when the list is already full.
ScanVisit_oneOverLimit(s, f) ==
    /\ BagIn(s, scans)
    /\ f \in s.todo
    /\ LET isTranscribed == f \in s.tr
           keep == /\ Len(s.found) <= FILE_CHUNK_LIMIT
                   /\ ~isTranscribed
                   /\ ~hasExceededMaxRetries(items, f)
           s2 == [s EXCEPT !.todo = @ \ {f},
                           !.found = IF keep THEN Append(@, f) ELSE @]
           rest == [Cur EXCEPT !.scans = @ (-) One(s)]
       IN IF s2.todo = {}
          THEN Commit(queueFilesTail(rest, s2.found), "scanVisit", f, "")
          ELSE Commit([rest EXCEPT !.scans = @ (+) One(s2)],
                      "scanVisit", f, "")
    /\ UNCHANGED <<files, settings, plugin, userOps, now>>

\* getUnprocessedFiles, one turn of its loop: getTranscribedStatus of the
\* next file of the shuffled list has resolved, then the filter.  After the
\* last file the loop ends and queueFiles goes on without a further await.
ScanVisit(s, f) ==
    /\ BagIn(s, scans)
    /\ f \in s.todo
    /\ LET isTranscribed == f \in s.tr
           keep == /\ Len(s.found) < FILE_CHUNK_LIMIT
                   /\ ~isTranscribed
                   /\ ~hasExceededMaxRetries(items, f)
           s2 == [s EXCEPT !.todo = @ \ {f},
                           !.found = IF keep THEN Append(@, f) ELSE @]
           rest == [Cur EXCEPT !.scans = @ (-) One(s)]
       IN IF s2.todo = {}
          THEN Commit(queueFilesTail(rest, s2.found), "scanVisit", f, "")
          ELSE Commit([rest EXCEPT !.scans = @ (+) One(s2)],
                      "scanVisit", f, "")
    /\ UNCHANGED <<files, settings, plugin, userOps, now>>

\* queueFiles on an empty directory: getTranscribedFiles has resolved, the
\* loop has nothing to visit, nothing is queued.
ScanEmpty(s) ==
    /\ BagIn(s, scans)
    /\ s.todo = {}
    /\ Commit(queueFilesTail([Cur EXCEPT !.scans = @ (-) One(s)], s.found),
              "scanEmpty", 0, "")
    /\ UNCHANGED <<files, settings, plugin, userOps, now>>

\* processFile: transformAudio resolved
AudioOk(h) ==
    /\ BagIn([h |-> h, pc |-> "audio"], inflight)
    /\ LET m1 == [Cur EXCEPT !.inflight =
                      (@ (-) One([h |-> h, pc |-> "audio"]))
                         (+) One([h |-> h, pc |-> "transcribe"])]
       IN Commit(setCanditateStatus(m1, h, TRANSCRIBING), "audioOk", h, "")
    /\ UNCHANGED <<files, settings, plugin, userOps, now>>

\* transcribe accepting a segments array that is empty.
transcribeThrows_allowsEmptySegments(data) ==
    \/ ~Truthy(data.text)
    \/ ~Truthy(data.segments)
    \/ ~IsArray(data.segments)

\* transcribe: the validation of response.data; TRUE when it throws.
transcribeThrows(data) ==
    \/ \/ ~Truthy(data.text)
       \/ ~Truthy(data.segments)
       \/ ~IsArray(data.segments)
    \/ ArrayLength(data.segments) = 0

\* processFile marking the record COMPLETE when the transcription arrives.
TranscribeResolves_completesEarly(h, r) ==
    /\ BagIn([h |-> h, pc |-> "transcribe"], inflight)
    /\ LET m1 == [Cur EXCEPT !.inflight =
                      (@ (-) One([h |-> h, pc |-> "transcribe"]))
                         (+) One([h |-> h, pc |-> "consolidate"])]
       IN Commit(setCanditateStatus(m1, h, COMPLETE), "transcribeOk", h, r)
    /\ UNCHANGED <<files, settings, plugin, userOps, now>>

\* processFile: the transcription call resolved with result r.  transcribe
\* validates it and throws on a malformed one; processFile goes on to
\* generate and consolidateFiles only "if (transcribed &&
\* transcribed.segments)" and throws otherwise; what is thrown is a plain
\* Error, handled by the catch block, and the task ends.
TranscribeResolves(h, r) ==
    /\ BagIn([h |-> h, pc |-> "transcribe"], inflight)
    /\ r \in limits.results
    /\ LET data == ResponseData(r)
           accepted == ~transcribeThrows(data) /\ Truthy(data.segments)
       IN IF accepted
          THEN Commit([Cur EXCEPT !.inflight =
                          (@ (-) One([h |-> h, pc |-> "transcribe"]))
                             (+) One([h |-> h, pc |-> "consolidate"])],
                      "transcribeOk", h, r)
          ELSE LET m1 == handleTranscriptionError(Cur, h, "other")
                   m2 == TaskDone(m1, h, "transcribe")
               IN Commit(m2, "fail", h, r)
    /\ UNCHANGED <<files, settings, plugin, userOps, now>>

\* processFile: generate and consolidateFiles resolved; the markdown output
\* (with original_file_hash) is written, the record becomes COMPLETE and the
\* task ends.
ConsolidateOk(h) ==
    /\ BagIn([h |-> h, pc |-> "consolidate"], inflight)
    /\ LET m0 == [Cur EXCEPT !.transcribed = @ \cup {h}]
           m1 == Notify(setCanditateStatus(m0, h, COMPLETE), "complete")
           m2 == TaskDone(m1, h, "consolidate")
       IN Commit(m2, "complete", h, "")
    /\ UNCHANGED <<files, settings, plugin, userOps, now>>

\* consolidateFiles (and generate) use the vault adapter only: what they
\* throw is no axios error; it is told apart as "vault".
KindsAt(pc) == IF pc = "consolidate" THEN {"vault"} ELSE ErrorKinds

\* processFile: the awaited step threw; the catch block, then the task ends.
AttemptFails(h, pc, kind) ==
    /\ BagIn([h |-> h, pc |-> pc], inflight)
    /\ kind \in KindsAt(pc)
    /\ LET m1 == handleTranscriptionError(Cur, h, kind)
           m2 == TaskDone(m1, h, pc)
       IN Commit(m2, "fail", h, kind)
    /\ UNCHANGED <<files, settings, plugin, userOps, now>>

\* The setTimeout callback of handleTranscriptionError
TimerFires(t) ==
    /\ BagIn(t, timers)
    /\ now >= t.due
    /\ Commit(QueueAdd([Cur EXCEPT !.timers = @ (-) One(t)], t.h),
              "timer", t.h, "")
    /\ UNCHANGED <<files, settings, plugin, userOps, now>>

\* Time passes; a due timer's callback runs before the clock moves on.
Tick ==
    /\ now < MaxTime
    /\ \A t \in BagToSet(timers) : t.due > now
    /\ now' = now + 1
    /\ ev' = [NoEvent EXCEPT !.op = "tick"]
    /\ stability' = stability
    /\ UNCHANGED <<items, running, queue, inflight, paused, timers, scans,
                   transcribed, files, settings, plugin, userOps, limits,
                   outcomes>>

\* main.ts queueFromWatcher after the stability wait: a created or renamed
\* file that is not transcribed is handed to queueFile.
queueFile(m, h) == Notify(QueueAdd(m, h), "added")

WatcherAdds(h) ==
    /\ plugin = "ready"
    /\ userOps < limits.userOps
    /\ h \notin transcribed
    /\ Commit(queueFile(Cur, h), "queueFile", h, "")
    /\ userOps' = userOps + 1
    /\ UNCHANGED <<files, settings, plugin, now>>

\* main.ts saveSettings -> queueUnprocessedFiles
saveSettings ==
    /\ plugin = "ready"
    /\ userOps < limits.userOps
    /\ Commit(queueUnprocessedFiles(Cur), "saveSettings", 0, "")
    /\ userOps' = userOps + 1
    /\ UNCHANGED <<files, settings, plugin, now>>

pause ==
    /\ plugin = "ready"
    /\ userOps < limits.userOps
    /\ Commit([Cur EXCEPT !.paused = TRUE, !.running = FALSE], "pause", 0, "")
    /\ userOps' = userOps + 1
    /\ UNCHANGED <<files, settings, plugin, now>>

resume ==
    /\ plugin = "ready"
    /\ LET m1 == [QueueStart(Cur) EXCEPT !.running = TRUE]
       IN Commit(m1, "resume", 0, "")
    /\ userOps < limits.userOps
    /\ userOps' = userOps + 1
    /\ UNCHANGED <<files, settings, plugin, now>>

\* onunload -> stop
stop ==
    /\ plugin = "ready"
    /\ plugin' = "unloaded"
    /\ Commit(QueueClear([Cur EXCEPT !.running = FALSE]), "stop", 0, "")
    /\ UNCHANGED <<files, settings, userOps, now>>

ScanRecords == BagToSet(scans)

\* What happens without the user: the first scan when the layout is ready,
\* the scans' and the attempts' steps, the backoff timers, the clock.
NextAuto ==
    \/ onLayoutReady
    \/ \E s \in ScanRecords : \E f \in files : ScanVisit(s, f)
    \/ \E s \in ScanRecords : ScanEmpty(s)
    \/ \E h \in files : AudioOk(h)
    \/ \E h \in files : \E r \in TranscriptionResults :
           TranscribeResolves(h, r)
    \/ \E h \in files : ConsolidateOk(h)
    \/ \E h \in files : \E pc \in Phases : \E kind \in KindsAt(pc) :
           AttemptFails(h, pc, kind)
    \/ \E t \in BagToSet(timers) : TimerFires(t)
    \/ Tick

\* What the user causes: file events, settings saves, the status view's
\* pause and resume, unloading the plugin.
NextUser ==
    \/ \E h \in files : WatcherAdds(h)
    \/ saveSettings
    \/ pause
    \/ resume
    \/ stop

Next == NextAuto \/ NextUser

Spec == Init /\ [][Next]_vars

\* The plugin left alone after it has loaded.
SpecAuto == Init /\ [][NextAuto]_vars

\* -------------------------------------------- resuming a paused queue
MaxResumeScans == 2

MaxResumeOps == 1

InitResume ==
    /\ items = <<>>
    /\ running = TRUE
    /\ queue = <<>>
    /\ inflight = EmptyBag
    /\ paused = FALSE
    /\ timers = EmptyBag
    /\ scans = EmptyBag
    /\ transcribed = {}
    /\ files \in {{}, {1}}
    /\ settings = [maxRetries |-> DefaultMaxRetries,
                   retryBaseDelayMs |-> 1, retryMaxDelayMs |-> 2]
    /\ outcomes = [h \in Hashes |-> [failed |-> 0, rateLimited |-> FALSE]]
    /\ plugin = "constructed"
    /\ userOps = 0
    /\ now = 0
    /\ limits = [tasks |-> MaxTasks, userOps |-> MaxResumeOps,
                 scans |-> MaxResumeScans, fails |-> MaxFails,
                 results |-> {"ok"}]
    /\ ev = NoEvent
    /\ stability = NoWait

\* The plugin left alone but for the status view's resume button: the queue
\* is paused by rate-limit failures only, and two scans may overlap.
NextResume == NextAuto \/ resume

SpecResume == InitResume /\ [][NextResume]_vars

\* -------------------------------------------------- backoff under settings
\* Retry counts the pure backoff properties are evaluated for.
MaxBackoffCount == 10

\* The settings the backoff is checked under: the defaults with the retries
\* raised so that eight delays are scheduled, the tests' configurations
\* (base above the maximum, base equal to it, a small base), and the small
\* delays of Spec.
BackoffSettings ==
    {[maxRetries |-> 9, retryBaseDelayMs |-> 5000, retryMaxDelayMs |-> 300000],
     [maxRetries |-> 3, retryBaseDelayMs |-> 1000, retryMaxDelayMs |-> 60000],
     [maxRetries |-> 3, retryBaseDelayMs |-> 10000, retryMaxDelayMs |-> 5000],
     [maxRetries |-> 3, retryBaseDelayMs |-> 5000, retryMaxDelayMs |-> 5000],
     [maxRetries |-> 7, retryBaseDelayMs |-> 100, retryMaxDelayMs |-> 5000],
     [maxRetries |-> 3, retryBaseDelayMs |-> 1, retryMaxDelayMs |-> 2]}

InitBackoff ==
    /\ items = <<>>
    /\ running = TRUE
    /\ queue = <<>>
    /\ inflight = EmptyBag
    /\ paused = FALSE
    /\ timers = EmptyBag
    /\ scans = EmptyBag
    /\ transcribed = {}
    /\ files \in {{}, {1}}
    /\ settings \in BackoffSettings
    /\ outcomes = [h \in Hashes |-> [failed |-> 0, rateLimited |-> FALSE]]
    /\ plugin = "constructed"
    /\ userOps = 0
    /\ now = 0
    /\ limits = [tasks |-> MaxTasks, userOps |-> MaxUserOps,
                 scans |-> MaxScans, fails |-> MaxBackoffCount,
                 results |-> {"ok", "emptySegments"}]
    /\ ev = NoEvent
    /\ stability = NoWait

SpecBackoff == InitBackoff /\ [][NextAuto]_vars

\* ------------------------------------------------- every malformed result
InitResults ==
    /\ items = <<>>
    /\ running = TRUE
    /\ queue = <<>>
    /\ inflight = EmptyBag
    /\ paused = FALSE
    /\ timers = EmptyBag
    /\ scans = EmptyBag
    /\ transcribed = {}
    /\ files \in {{}, {1}}
    /\ settings = [maxRetries |-> DefaultMaxRetries,
                   retryBaseDelayMs |-> 1, retryMaxDelayMs |-> 2]
    /\ outcomes = [h \in Hashes |-> [failed |-> 0, rateLimited |-> FALSE]]
    /\ plugin = "constructed"
    /\ userOps = 0
    /\ now = 0
    /\ limits = [tasks |-> MaxTasks, userOps |-> MaxUserOps,
                 scans |-> MaxScans, fails |-> MaxFails,
                 results |-> TranscriptionResults]
    /\ ev = NoEvent
    /\ stability = NoWait

\* The plugin left alone, the transcription call resolving with any result.
SpecResults == InitResults /\ [][NextAuto]_vars

\* ------------------------------------------------------ the pool saturated
\* Tasks the PQueue may hold, and file events the user may cause, where the
\* pool of Concurrency workers is filled.
MaxPoolTasks == 9

MaxPoolOps == 10

InitPool ==
    /\ items = <<>>
    /\ running = TRUE
    /\ queue = <<>>
    /\ inflight = EmptyBag
    /\ paused = FALSE
    /\ timers = EmptyBag
    /\ scans = EmptyBag
    /\ transcribed = {}
    /\ files \in {{}, {1}}
    /\ settings = [maxRetries |-> DefaultMaxRetries,
                   retryBaseDelayMs |-> 1, retryMaxDelayMs |-> 2]
    /\ outcomes = [h \in Hashes |-> [failed |-> 0, rateLimited |-> FALSE]]
    /\ plugin = "constructed"
    /\ userOps = 0
    /\ now = 0
    /\ limits = [tasks |-> MaxPoolTasks, userOps |-> MaxPoolOps,
                 scans |-> MaxScans, fails |-> MaxFails,
                 results |-> {"ok"}]
    /\ ev = NoEvent
    /\ stability = NoWait

\* Many create/rename events of a file arrive while its attempts are slow
\* to end; the user pauses and resumes; no attempt fails.
NextPool ==
    \/ onLayoutReady
    \/ \E s \in ScanRecords : \E f \in files : ScanVisit(s, f)
    \/ \E s \in ScanRecords : ScanEmpty(s)
    \/ \E h \in files : WatcherAdds(h)
    \/ \E h \in files : AudioOk(h)
    \/ \E h \in files : \E r \in TranscriptionResults :
           TranscribeResolves(h, r)
    \/ \E h \in files : ConsolidateOk(h)
    \/ pause
    \/ resume

SpecPool == InitPool /\ [][NextPool]_vars

\* An await of an attempt in flight resolves.
AttemptProgress ==
    \/ \E h \in files : AudioOk(h)
    \/ \E h \in files : \E r \in TranscriptionResults :
           TranscribeResolves(h, r)
    \/ \E h \in files : ConsolidateOk(h)

\* While attempts are in flight one of their awaits resolves in the end
\* (the requests have timeouts).
SpecPoolFair == SpecPool /\ WF_vars(AttemptProgress)

\* ---------------------------------------------------------------- two files
\* Tasks and scans in progress where two files lie in the directory.
MaxTwoTasks == 2

MaxTwoScans == 2

MaxTwoFails == 3

InitTwo ==
    /\ items = <<>>
    /\ running = TRUE
    /\ queue = <<>>
    /\ inflight = EmptyBag
    /\ paused = FALSE
    /\ timers = EmptyBag
    /\ scans = EmptyBag
    /\ transcribed = {}
    /\ files \in {{}, Hashes}
    /\ settings = [maxRetries |-> 2,
                   retryBaseDelayMs |-> 1, retryMaxDelayMs |-> 2]
    /\ outcomes = [h \in Hashes |-> [failed |-> 0, rateLimited |-> FALSE]]
    /\ plugin = "constructed"
    /\ userOps = 0
    /\ now = 0
    /\ limits = [tasks |-> MaxTwoTasks, userOps |-> 0,
                 scans |-> MaxTwoScans, fails |-> MaxTwoFails,
                 results |-> {"ok"}]
    /\ ev = NoEvent
    /\ stability = NoWait

\* The plugin left alone with two files to transcribe.
SpecTwo == InitTwo /\ [][NextAuto]_vars

\* --------------------------------------------------- two files, one retry
MaxGiveUpTasks == 2

MaxGiveUpScans == 1

MaxGiveUpFails == 2

InitGiveUp ==
    /\ items = <<>>
    /\ running = TRUE
    /\ queue = <<>>
    /\ inflight = EmptyBag
    /\ paused = FALSE
    /\ timers = EmptyBag
    /\ scans = EmptyBag
    /\ transcribed = {}
    /\ files \in {{}, Hashes}
    /\ settings = [maxRetries |-> 2,
                   retryBaseDelayMs |-> 1, retryMaxDelayMs |-> 2]
    /\ outcomes = [h \in Hashes |-> [failed |-> 0, rateLimited |-> FALSE]]
    /\ plugin = "constructed"
    /\ userOps = 0
    /\ now = 0
    /\ limits = [tasks |-> MaxGiveUpTasks, userOps |-> 0,
                 scans |-> MaxGiveUpScans, fails |-> MaxGiveUpFails,
                 results |-> {"ok"}]
    /\ ev = NoEvent
    /\ stability = NoWait

\* The plugin left alone with two files and maxRetries = 2: the second
\* failure of a file exhausts its retries.
SpecGiveUp == InitGiveUp /\ [][NextAuto]_vars

\* --------------------------------------------- a large watched directory
MaxChunkFiles == 26

\* The first scan of a directory of up to MaxChunkFiles files, some of them
\* transcribed already; the shuffled list is taken to come out in
\* ascending order.
InitChunk ==
    /\ items = <<>>
    /\ running = TRUE
    /\ queue = <<>>
    /\ inflight = EmptyBag
    /\ paused = FALSE
    /\ timers = EmptyBag
    /\ scans = EmptyBag
    /\ files \in {1..n : n \in 0..MaxChunkFiles}
    /\ transcribed \in {{}, {1}, {2, 3} \cap files, files}
    /\ settings = [maxRetries |-> DefaultMaxRetries,
                   retryBaseDelayMs |-> 1, retryMaxDelayMs |-> 2]
    /\ outcomes = [h \in Hashes |-> [failed |-> 0, rateLimited |-> FALSE]]
    /\ plugin = "constructed"
    /\ userOps = 0
    /\ now = 0
    /\ limits = [tasks |-> MaxChunkFiles, userOps |-> 0,
                 scans |-> MaxScans, fails |-> MaxFails,
                 results |-> {"ok"}]
    /\ ev = NoEvent
    /\ stability = NoWait

Lowest(S) == CHOOSE x \in S : \A y \in S : x <= y

NextChunk ==
    \/ onLayoutReady
    \/ \E s \in ScanRecords :
           /\ s.todo # {}
           /\ ScanVisit(s, Lowest(s.todo))
    \/ \E s \in ScanRecords : ScanEmpty(s)

SpecChunk == InitChunk /\ [][NextChunk]_vars

\* ------------------------------------------------- waitForFileStability
MaxStabilityDelay == 3

MaxCheckInterval == 3

MaxSize == 2

MaxPolls == 6

\* What one poll finds: exists() false, stat() null, one of the two calls
\* throwing, or a size.
Observations ==
    [kind : {"missing", "nostat", "throws"}, size : {0}]
        \cup [kind : {"size"}, size : 0..MaxSize]

\* maxChecks = Math.ceil((stabilityDelayMs * 10) / checkIntervalMs)
maxChecks(st) ==
    (st.stabilityDelayMs * 10 + st.checkIntervalMs - 1) \div st.checkIntervalMs

\* setTimeout(checkFile, checkIntervalMs) giving up beyond maxChecks polls.
Schedule_maxChecks(st) ==
    IF st.checkCount >= maxChecks(st)
    THEN [st EXCEPT !.pc = "rejected", !.error = "timeout"]
    ELSE [st EXCEPT !.at = @ + st.checkIntervalMs, !.timer = TRUE]

\* setTimeout(checkFile, checkIntervalMs): the next poll comes an interval
\* after this one (the latency of exists and stat is left out).
Schedule(st) ==
    [st EXCEPT !.at = @ + st.checkIntervalMs, !.timer = TRUE]

\* resolve() / reject(error): a promise settles once.
Settle(st, outcome, error) ==
    IF st.pc = "polling"
    THEN [st EXCEPT !.pc = outcome, !.error = error]
    ELSE st

\* reject(...) without the return: the poll goes on to its setTimeout.
Reject_keepsPolling(st, error) ==
    Schedule(Settle(st, "rejected", error))

\* reject(...); return
Reject(st, error) ==
    Settle(st, "rejected", error)

\* The size-0 branch keeping lastSize and stableStartTime.
OnEmpty_keepsProgress(st) ==
    Schedule(st)

\* currentSize === 0: stability tracking is reset, the poll goes on.
OnEmpty(st) ==
    Schedule([st EXCEPT !.lastSize = Null, !.stableStartTime = Null])

\* lastSize === null || currentSize !== lastSize
OnChanged(st, currentSize) ==
    Schedule([st EXCEPT !.lastSize = currentSize, !.stableStartTime = Null])

\* The size is the one of the last poll: stableStartTime is set if it is
\* not, and the call resolves once stabilityDelayMs have passed since then.
OnUnchanged(st) ==
    LET dateNow == st.at
        s1 == IF st.stableStartTime = Null
              THEN [st EXCEPT !.stableStartTime = dateNow]
              ELSE st
        timeSinceStable == dateNow - s1.stableStartTime
    IN IF timeSinceStable >= s1.stabilityDelayMs
       THEN Settle(s1, "resolved", "")
       ELSE Schedule(s1)

\* checkFile, one poll from checkCount++ to its return
checkFileStep(st, obs) ==
    LET s1 == [st EXCEPT !.checkCount = @ + 1, !.seen = Append(@, obs),
                         !.timer = FALSE]
    IN CASE obs.kind = "throws" -> Reject(s1, "thrown")
         [] obs.kind = "missing" -> Reject(s1, "File does not exist")
         [] obs.kind = "nostat" -> Reject(s1, "Could not get stats")
         [] OTHER ->
              IF obs.size = 0
              THEN OnEmpty(s1)
              ELSE IF s1.lastSize = Null \/ obs.size # s1.lastSize
                   THEN OnChanged(s1, obs.size)
                   ELSE OnUnchanged(s1)

\* The timer of a pending poll fires (the first poll is made by the call
\* itself).
checkFile(obs) ==
    /\ stability.timer
    /\ stability.checkCount < MaxPolls
    /\ stability' = checkFileStep(stability, obs)
    /\ UNCHANGED <<items, running, queue, inflight, paused, timers, scans,
                   transcribed, files, settings, plugin, userOps, now,
                   limits, outcomes, ev>>

\* waitForFileStability(filepath, adapter, stabilityDelayMs,
\* checkIntervalMs) has just been called, at time 0.
InitStability ==
    /\ items = <<>>
    /\ running = TRUE
    /\ queue = <<>>
    /\ inflight = EmptyBag
    /\ paused = FALSE
    /\ timers = EmptyBag
    /\ scans = EmptyBag
    /\ transcribed = {}
    /\ files = {1}
    /\ settings = [maxRetries |-> DefaultMaxRetries,
                   retryBaseDelayMs |-> 1, retryMaxDelayMs |-> 2]
    /\ outcomes = [h \in Hashes |-> [failed |-> 0, rateLimited |-> FALSE]]
    /\ plugin = "ready"
    /\ userOps = 0
    /\ now = 0
    /\ limits = [tasks |-> MaxTasks, userOps |-> MaxUserOps,
                 scans |-> MaxScans, fails |-> MaxFails,
                 results |-> {"ok"}]
    /\ ev = NoEvent
    /\ \E d \in 1..MaxStabilityDelay : \E i \in 1..MaxCheckInterval :
           stability = [NoWait EXCEPT !.pc = "polling", !.timer = TRUE,
                                      !.stabilityDelayMs = d,
                                      !.checkIntervalMs = i]

NextStability == \E obs \in Observations : checkFile(obs)

SpecStability == InitStability /\ [][NextStability]_vars

\* Calls on a file that stays in place: every poll finds it and gets its
\* size.
MaxFairDelay == 2

MaxFairInterval == 2

SizeObservations == [kind : {"size"}, size : 0..MaxSize]

InitStabilityFair ==
    /\ items = <<>>
    /\ running = TRUE
    /\ queue = <<>>
    /\ inflight = EmptyBag
    /\ paused = FALSE
    /\ timers = EmptyBag
    /\ scans = EmptyBag
    /\ transcribed = {}
    /\ files = {1}
    /\ settings = [maxRetries |-> DefaultMaxRetries,
                   retryBaseDelayMs |-> 1, retryMaxDelayMs |-> 2]
    /\ outcomes = [h \in Hashes |-> [failed |-> 0, rateLimited |-> FALSE]]
    /\ plugin = "ready"
    /\ userOps = 0
    /\ now = 0
    /\ limits = [tasks |-> MaxTasks, userOps |-> MaxUserOps,
                 scans |-> MaxScans, fails |-> MaxFails,
                 results |-> {"ok"}]
    /\ ev = NoEvent
    /\ \E d \in 1..MaxFairDelay : \E i \in 1..MaxFairInterval :
           stability = [NoWait EXCEPT !.pc = "polling", !.timer = TRUE,
                                      !.stabilityDelayMs = d,
                                      !.checkIntervalMs = i]

NextStabilityFair == \E obs \in SizeObservations : checkFile(obs)

\* The poll timer fires while it is pending.
SpecStabilityFair ==
    InitStabilityFair /\ [][NextStabilityFair]_vars
        /\ WF_vars(NextStabilityFair)

\* The time of the k-th poll of the call, and the sizes its polls saw.
PollTime(k) == (k - 1) * stability.checkIntervalMs

Polls == 1..Len(stability.seen)

SawSize(k) == stability.seen[k].kind = "size"

\* The last poll that saw another size than the poll before it (the first
\* poll sees a size for the first time).
LastChange ==
    CHOOSE k \in Polls :
        /\ k = 1 \/ stability.seen[k] # stability.seen[k - 1]
        /\ \A j \in Polls :
               j > k => stability.seen[j] = stability.seen[j - 1]

\* ------------------------------------------- a file that cannot succeed
MaxPoisonTasks == 3

MaxPoisonScans == 1

MaxPoisonFails == 8

InitPoison ==
    /\ items = <<>>
    /\ running = TRUE
    /\ queue = <<>>
    /\ inflight = EmptyBag
    /\ paused = FALSE
    /\ timers = EmptyBag
    /\ scans = EmptyBag
    /\ transcribed = {}
    /\ files \in {{}, {1}}
    /\ settings = [maxRetries |-> DefaultMaxRetries,
                   retryBaseDelayMs |-> 1, retryMaxDelayMs |-> 2]
    /\ outcomes = [h \in Hashes |-> [failed |-> 0, rateLimited |-> FALSE]]
    /\ plugin = "constructed"
    /\ userOps = 0
    /\ now = 0
    /\ limits = [tasks |-> MaxPoisonTasks, userOps |-> 0,
                 scans |-> MaxPoisonScans, fails |-> MaxPoisonFails,
                 results |-> {"ok"}]
    /\ ev = NoEvent
    /\ stability = NoWait

\* Time passes while a backoff timer is waiting for it.
Elapse ==
    /\ timers # EmptyBag
    /\ \A t \in BagToSet(timers) : t.due > now
    /\ now' = now + 1
    /\ ev' = [NoEvent EXCEPT !.op = "tick"]
    /\ stability' = stability
    /\ UNCHANGED <<items, running, queue, inflight, paused, timers, scans,
                   transcribed, files, settings, plugin, userOps, limits,
                   outcomes>>

\* The plugin left alone with a file no attempt of which succeeds: each
\* attempt ends in a throw of one of its awaited steps.
NextPoison ==
    \/ onLayoutReady
    \/ \E s \in ScanRecords : \E f \in files : ScanVisit(s, f)
    \/ \E s \in ScanRecords : ScanEmpty(s)
    \/ \E h \in files : AudioOk(h)
    \/ \E h \in files : \E r \in TranscriptionResults :
           TranscribeResolves(h, r)
    \/ \E h \in files : \E pc \in Phases : \E kind \in KindsAt(pc) :
           AttemptFails(h, pc, kind)
    \/ \E t \in BagToSet(timers) : TimerFires(t)
    \/ Elapse

\* The event loop does not stop while a callback, a timer or the settling
\* of an awaited promise is pending.
SpecPoison == InitPoison /\ [][NextPoison]_vars /\ WF_vars(NextPoison)

\* ------------------------------------- files by name and by content hash
\* Elsewhere a file is identified with its content hash.  Here a file of the
\* watched directory has a filename and a hash, and the vault's outputs are
\* the TranscribedItem list getTranscribedFiles reads from their
\* frontmatter (a missing original_file_name reads as "", a missing
\* original_file_hash as "", here Null).
FileNames == {"a.mp3", "b.mp3"}

MaxLookupFiles == 2

MaxLookupItems == 2

MaxLookupTasks == 2

MaxLookupOps == 1

AudioFiles == [filename : FileNames, hash : Hashes]

TranscribedItems ==
    [originalAudioFileName : FileNames \cup {""},
     originalAudioFileHash : Hashes \cup {Null}]

\* transcribedItems.find((item) => detail.filename ===
\* item.originalAudioFileName): the positions that match
FoundByName(file, transcribedItems) ==
    {i \in 1..Len(transcribedItems) :
        transcribedItems[i].originalAudioFileName = file.filename}

\* transcribedItems.some((item) => hash === item.originalAudioFileHash)
FoundByHash(hash, transcribedItems) ==
    \E i \in 1..Len(transcribedItems) :
        transcribedItems[i].originalAudioFileHash = hash

\* getTranscribedStatus looking the file up by its hash alone.
getTranscribedStatus_hashOnly(file, transcribedItems) ==
    [isTranscribed |-> FoundByHash(file.hash, transcribedItems),
     hash |-> file.hash, hashed |-> TRUE]

\* getTranscribedStatus: the candidate of a file; `hashed` tells whether the
\* file was read and hashed for it.
getTranscribedStatus(file, transcribedItems) ==
    LET byName == FoundByName(file, transcribedItems)
    IN IF byName # {}
       THEN [isTranscribed |-> TRUE,
             hash |-> transcribedItems[Lowest(byName)].originalAudioFileHash,
             hashed |-> FALSE]
       ELSE [isTranscribed |-> FoundByHash(file.hash, transcribedItems),
             hash |-> file.hash, hashed |-> TRUE]

InitLookup ==
    /\ items = <<>>
    /\ running = TRUE
    /\ queue = <<>>
    /\ inflight = EmptyBag
    /\ paused = FALSE
    /\ timers = EmptyBag
    /\ scans = EmptyBag
    /\ files \in {S \in SUBSET AudioFiles : Cardinality(S) <= MaxLookupFiles}
    /\ \E n \in 0..MaxLookupItems :
           transcribed \in [1..n -> TranscribedItems]
    /\ settings = [maxRetries |-> DefaultMaxRetries,
                   retryBaseDelayMs |-> 1, retryMaxDelayMs |-> 2]
    /\ outcomes = [h \in Hashes |-> [failed |-> 0, rateLimited |-> FALSE]]
    /\ plugin = "constructed"
    /\ userOps = 0
    /\ now = 0
    /\ limits = [tasks |-> MaxLookupTasks, userOps |-> MaxLookupOps,
                 scans |-> MaxScans, fails |-> MaxFails,
                 results |-> {"ok"}]
    /\ ev = NoEvent
    /\ stability = NoWait

\* getUnprocessedFiles, one turn of its loop, on a file with a name:
\* getTranscribedStatus, then the filter on the candidate it returns.
DiscoverVisit(s, file) ==
    /\ BagIn(s, scans)
    /\ file \in s.todo
    /\ LET candidate == getTranscribedStatus(file, s.tr)
           keep == /\ Len(s.found) < FILE_CHUNK_LIMIT
                   /\ ~candidate.isTranscribed
                   /\ ~hasExceededMaxRetries(items, candidate.hash)
           s2 == [s EXCEPT !.todo = @ \ {file},
                           !.found = IF keep THEN Append(@, candidate.hash)
                                     ELSE @]
           rest == [Cur EXCEPT !.scans = @ (-) One(s)]
       IN IF s2.todo = {}
          THEN Commit(queueFilesTail(rest, s2.found), "scanVisit",
                      candidate.hash, "")
          ELSE Commit([rest EXCEPT !.scans = @ (+) One(s2)],
                      "scanVisit", candidate.hash, "")
    /\ UNCHANGED <<files, settings, plugin, userOps, now>>

\* main.ts queueFromWatcher on a created or renamed file, after the
\* stability wait: getTranscribedFiles, getTranscribedStatus, and queueFile
\* if the candidate is not transcribed.
WatcherEvent(file) ==
    /\ plugin = "ready"
    /\ userOps < limits.userOps
    /\ LET candidate == getTranscribedStatus(file, transcribed)
       IN IF ~candidate.isTranscribed
          THEN Commit(queueFile(Cur, candidate.hash), "queueFile",
                      candidate.hash, "")
          ELSE Commit(Cur, "watcherSkip", candidate.hash, "")
    /\ userOps' = userOps + 1
    /\ UNCHANGED <<files, settings, plugin, now>>

NextLookup ==
    \/ onLayoutReady
    \/ \E s \in ScanRecords : \E file \in files : DiscoverVisit(s, file)
    \/ \E s \in ScanRecords : ScanEmpty(s)
    \/ \E file \in files : WatcherEvent(file)

SpecLookup == InitLookup /\ [][NextLookup]_vars

\* The file's name is the original_file_name of an output of the vault.
NameMatched(file) == FoundByName(file, transcribed) # {}

\* ------------------------------------------------------------- the claims
\* Attempts of h in flight, tasks of h waiting, and both together.
InFlightOf(h, b) ==
    CopiesIn([h |-> h, pc |-> "audio"], b)
        + CopiesIn([h |-> h, pc |-> "transcribe"], b)
        + CopiesIn([h |-> h, pc |-> "consolidate"], b)

WaitingOf(h, q) == Cardinality({i \in 1..Len(q) : q[i] = h})

TasksOf(h, q, b) == WaitingOf(h, q) + InFlightOf(h, b)

Tracked(h) == h \in DOMAIN items

PermanentlyFailed(h) ==
    /\ Tracked(h)
    /\ items[h].status = FAILED
    /\ items[h].retryCount >= settings.maxRetries

\* C1: at any moment at most one processing attempt (processFile execution)
\* is in flight for a given content hash.
C1_OneAttemptInFlightPerHash ==
    \A h \in Hashes : InFlightOf(h, inflight) <= 1

\* C2: once a record is FAILED with retryCount >= maxRetries, no step the
\* plugin takes by itself changes its status, re-queues it or begins a
\* further attempt of it.
C2_PermanentFailureIsFinal ==
    [][\A h \in Hashes :
          PermanentlyFailed(h) =>
              /\ items'[h].status = FAILED
              /\ h \notin ev'.started
              /\ WaitingOf(h, queue') <= WaitingOf(h, queue)]_vars

\* C3: after a failure answered with a retry after delay d, no attempt of
\* that candidate begins before d has elapsed: when an attempt of h begins,
\* no backoff timer of h is still waiting for a later time.
C3_RetryWaitsForBackoff ==
    [][\A h \in Hashes :
          h \in ev'.started =>
              \A t \in BagToSet(timers) :
                  (t.h = h /\ BagIn(t, timers')) => t.due <= now']_vars

\* C4: a discovery scan adds no task for a candidate whose record is already
\* QUEUED, PROCESSING_AUDIO or TRANSCRIBING.
C4_RescanIdempotent ==
    [][ev'.op = "scanVisit" =>
          \A h \in Hashes :
              (Tracked(h) /\ items[h].status \in
                                 {QUEUED, PROCESSING_AUDIO, TRANSCRIBING})
                  => TasksOf(h, queue', inflight')
                         <= TasksOf(h, queue, inflight)]_vars

C6_SuccessAfterRetries ==
    [][\A h \in Hashes :
          (/\ ev'.op = "complete" /\ ev'.h = h
           /\ outcomes[h].failed = settings.maxRetries - 1
           /\ ~outcomes[h].rateLimited
           /\ h \notin transcribed) =>
              /\ items'[h].status = COMPLETE
              /\ items'[h].retryCount = settings.maxRetries - 1
              /\ items'[h].finalizedAt # Null]_vars

C6_Witness ==
    /\ ev.op = "complete"
    /\ outcomes[ev.h].failed = settings.maxRetries - 1
    /\ ~outcomes[ev.h].rateLimited
    /\ items[ev.h].status = COMPLETE
    /\ items[ev.h].retryCount = settings.maxRetries - 1
    /\ items[ev.h].finalizedAt = now

\* C7: once a record is COMPLETE its status never changes again and no
\* further attempt of that hash begins.
C7_CompleteIsTerminal ==
    [][\A h \in Hashes :
          (Tracked(h) /\ items[h].status = COMPLETE) =>
              /\ items'[h].status = COMPLETE
              /\ h \notin ev'.started]_vars

\* C8: the delay scheduled after a candidate's n-th failure (a non-rate-limit
\* one, n < maxRetries) is min(base * 2^(n-1), max); the first delay is the
\* base delay (the maximum if that is smaller), each later one the double of
\* the one before up to the maximum, so the delay is non-decreasing in the
\* retry count and never above the maximum; with base 5000 and maximum
\* 300000 it runs 5000, 10000, 20000, 40000, 80000, 160000, 300000, 300000.
C8_BackoffDelay ==
    /\ [][\A h \in Hashes :
             (/\ ev'.op = "fail" /\ ev'.h = h /\ ev'.kind # "rate"
              /\ outcomes'[h].failed < settings.maxRetries) =>
                 LET n == outcomes'[h].failed
                     geometric == settings.retryBaseDelayMs * 2^(n - 1)
                     expected == IF geometric <= settings.retryMaxDelayMs
                                 THEN geometric
                                 ELSE settings.retryMaxDelayMs
                 IN \E t \in BagToSet(timers') :
                        /\ timers' = timers (+) One(t)
                        /\ t.h = h
                        /\ t.due = now + expected]_vars
    /\ [](calculateBackoffDelay(0) =
             IF settings.retryBaseDelayMs <= settings.retryMaxDelayMs
             THEN settings.retryBaseDelayMs
             ELSE settings.retryMaxDelayMs)
    /\ [](\A r \in 0..MaxBackoffCount :
             /\ calculateBackoffDelay(r) <= calculateBackoffDelay(r + 1)
             /\ calculateBackoffDelay(r) <= settings.retryMaxDelayMs
             /\ \/ calculateBackoffDelay(r + 1) = 2 * calculateBackoffDelay(r)
                \/ calculateBackoffDelay(r + 1) = settings.retryMaxDelayMs)
    /\ []((settings.retryBaseDelayMs = 5000
           /\ settings.retryMaxDelayMs = 300000)
             => [r \in 0..7 |-> calculateBackoffDelay(r)]
                    = [r \in 0..7 |->
                          CASE r = 0 -> 5000 [] r = 1 -> 10000
                            [] r = 2 -> 20000 [] r = 3 -> 40000
                            [] r = 4 -> 80000 [] r = 5 -> 160000
                            [] OTHER -> 300000])

\* The eighth delay of the default backoff has been scheduled, at the cap.
C8_Witness ==
    /\ ev.op = "fail"
    /\ settings.retryBaseDelayMs = 5000
    /\ outcomes[ev.h].failed = 8
    /\ BagIn([h |-> ev.h, due |-> now + 300000], timers)

\* C9: a rate-limit failure, whatever the retryCount, leaves the record
\* FAILED and the queue paused, and schedules no retry of that candidate:
\* no timer is set, no task of it is added, no attempt of it begins.
C9_RateLimitPauses ==
    [][\A h \in Hashes :
          (ev'.op = "fail" /\ ev'.h = h /\ ev'.kind = "rate") =>
              /\ items'[h].status = FAILED
              /\ items'[h].finalizedAt # Null
              /\ paused'
              /\ timers' = timers
              /\ ev'.started = {}
              /\ WaitingOf(h, queue') <= WaitingOf(h, queue)]_vars

C9_Witness ==
    /\ ev.op = "fail"
    /\ ev.kind = "rate"
    /\ items[ev.h].status = FAILED
    /\ items[ev.h].retryCount < settings.maxRetries
    /\ paused

\* C10: while the queue is paused no attempt begins before resume(); pause()
\* and the rate-limit pause cancel no attempt in flight, which goes on to
\* its own completion or failure.
C10_PausedStartsNothing ==
    [][/\ (paused /\ ev'.op # "resume") => ev'.started = {}
       /\ ev'.op = "pause" => (paused' /\ inflight' = inflight)
       /\ (ev'.op = "fail" /\ ev'.kind = "rate") =>
              /\ ev'.started = {}
              /\ \E pc \in Phases :
                     inflight = inflight' (+) One([h |-> ev'.h, pc |-> pc])
       /\ (paused /\ ev'.op \notin {"complete", "fail"}) =>
              BagCardinality(inflight') >= BagCardinality(inflight)]_vars

\* An attempt in flight at pause() has completed while the queue is paused.
C10_Witness ==
    /\ paused
    /\ ev.op = "complete"
    /\ ev.started = {}
    /\ queue # <<>>

\* The first k tasks of a waiting list, as attempts that have just started.
RECURSIVE StartedBag(_, _)
StartedBag(q, k) ==
    IF k = 0
    THEN EmptyBag
    ELSE StartedBag(q, k - 1) (+) One([h |-> q[k], pc |-> "audio"])

IsPrefix(p, q) == Len(p) <= Len(q) /\ SubSeq(q, 1, Len(p)) = p

\* C11: pause() loses no work (no reset()/stop() in between): pause() leaves
\* the waiting list as it is, while paused the list only grows, resume()
\* starts its tasks in order as far as workers are free and leaves the rest
\* waiting in order, a task waits on an unpaused queue only while all
\* workers are busy, and after resume() the waiting list is worked off.
C11_PauseLosesNoWork ==
    /\ [][/\ ev'.op = "pause" => (queue' = queue /\ inflight' = inflight)
          /\ (paused /\ ev'.op # "resume") => IsPrefix(queue, queue')
          /\ ev'.op = "resume" =>
                LET free == Concurrency - BagCardinality(inflight)
                    k == IF ~paused THEN 0
                         ELSE IF Len(queue) <= free THEN Len(queue) ELSE free
                IN /\ queue' = SubSeq(queue, k + 1, Len(queue))
                   /\ inflight' = inflight (+) StartedBag(queue, k)
                   /\ ~paused']_vars
    /\ []((~paused /\ queue # <<>>) =>
             BagCardinality(inflight) = Concurrency)
    /\ (ev.op = "resume") ~> (queue = <<>> \/ paused)

\* resume() has started as many waiting tasks as workers were free, and more
\* are waiting, none lost.
C11_Witness ==
    /\ ev.op = "resume"
    /\ ev.started # {}
    /\ BagCardinality(inflight) = Concurrency
    /\ queue # <<>>

\* The scan that visits h next decides on it with nothing else in its way:
\* h is not in the scan's list of transcribed files and the scan's result
\* has room.
ScanReaches(h) ==
    /\ ScanRecords # {}
    /\ \A sc \in ScanRecords :
           h \in sc.todo =>
               h \notin sc.tr /\ Len(sc.found) < FILE_CHUNK_LIMIT

ScanSteps == {"scanVisit", "scanEmpty", "onLayoutReady", "saveSettings"}

\* C12: a record FAILED with retryCount below maxRetries (a rate-limit
\* failure) is not excluded by discovery: the scan that reaches it adds a
\* task for it and sets it QUEUED (PROCESSING_AUDIO if the task starts at
\* once); no step of a scan changes a retryCount.
C12_RateLimitedStaysEligible ==
    [][/\ \A h \in Hashes :
             (/\ ev'.op = "scanVisit" /\ ev'.h = h
              /\ Tracked(h)
              /\ items[h].status = FAILED
              /\ items[h].retryCount < settings.maxRetries
              /\ ScanReaches(h)) =>
                 /\ TasksOf(h, queue', inflight')
                        = TasksOf(h, queue, inflight) + 1
                 /\ items'[h].status =
                        IF h \in ev'.started THEN PROCESSING_AUDIO ELSE QUEUED
                 /\ items'[h].retryCount = items[h].retryCount
       /\ ev'.op \in ScanSteps =>
             \A h \in Hashes :
                 Tracked(h) => /\ h \in DOMAIN items'
                               /\ items'[h].retryCount = items[h].retryCount]_vars

\* After resume() a scan has put the rate-limited candidate to work again.
C12_Witness ==
    /\ ev.op = "scanVisit"
    /\ ~paused
    /\ outcomes[ev.h].rateLimited
    /\ outcomes[ev.h].failed = 1
    /\ ev.h \in ev.started
    /\ items[ev.h].status = PROCESSING_AUDIO
    /\ items[ev.h].retryCount = 1

\* The scan that visits h has found it in its list of transcribed files.
ScanRecognises(h) ==
    /\ ScanRecords # {}
    /\ \A sc \in ScanRecords : h \in sc.todo => h \in sc.tr

\* C13: a discovery scan returns (marks QUEUED and adds a task for) no
\* candidate whose record is FAILED with retryCount >= maxRetries, and none
\* it has recognised as transcribed.
C13_ScanExcludes ==
    [][ev'.op = "scanVisit" =>
          /\ \A h \in Hashes :
                 PermanentlyFailed(h) =>
                     /\ TasksOf(h, queue', inflight')
                            <= TasksOf(h, queue, inflight)
                     /\ items'[h] = items[h]
          /\ ScanRecognises(ev'.h) =>
                 /\ TasksOf(ev'.h, queue', inflight')
                        <= TasksOf(ev'.h, queue, inflight)
                 /\ Tracked(ev'.h) =>
                        items'[ev'.h].status = items[ev'.h].status]_vars

\* C14: in every reachable state and for every record, finalizedAt is
\* non-null if and only if the status is COMPLETE or FAILED.
C14_FinalizedIffTerminal ==
    \A h \in Hashes :
        Tracked(h) =>
            (items[h].finalizedAt # Null <=> items[h].status \in {COMPLETE, FAILED})

\* A record that was FAILED (rate limit) has been queued again by a scan:
\* it is QUEUED with no finalizedAt.
C14_Witness ==
    \E h \in Hashes :
        /\ Tracked(h)
        /\ ev.op = "scanVisit"
        /\ outcomes[h].rateLimited
        /\ items[h].status = QUEUED
        /\ items[h].finalizedAt = Null

\* C15: finalizedAt is set once: after it has become non-null no step
\* clears it or replaces it by a later value.
C15_FinalizedAtSetOnce ==
    [][\A h \in Hashes :
          (Tracked(h) /\ items[h].finalizedAt # Null) =>
              items'[h].finalizedAt = items[h].finalizedAt]_vars

\* C15 as amended: finalizedAt is written with the status.  It is null after
\* every step that leaves the record in a non-terminal status (so it is
\* cleared when a FAILED record is queued or processed again), it is the
\* current time after a step in which an attempt of the record ended in
\* COMPLETE or FAILED, and no other step changes it.
C15_FinalizedAtFollowsStatus ==
    [][\A h \in Hashes :
          Tracked(h) =>
              IF items'[h].status \notin {COMPLETE, FAILED}
              THEN items'[h].finalizedAt = Null
              ELSE IF ev'.op \in {"complete", "fail"} /\ ev'.h = h
                   THEN items'[h].finalizedAt = now
                   ELSE items'[h].finalizedAt = items[h].finalizedAt]_vars

\* A record finalised at time 0 by a rate-limit failure was re-opened and
\* has been finalised again, at time 1.
C15_Witness ==
    \E h \in Hashes :
        /\ Tracked(h)
        /\ ev.op = "fail" /\ ev.h = h
        /\ outcomes[h].rateLimited
        /\ outcomes[h].failed >= 2
        /\ items[h].status = FAILED
        /\ items[h].finalizedAt = 1

\* C16: a record's retryCount starts at 0, no step lowers it or deletes the
\* record, the step in which an attempt of the hash fails raises it by
\* exactly 1 and no other step changes it, so that it always equals the
\* number of failed attempts of the hash.
C16_RetryCountCountsFailures ==
    /\ [][\A h \in Hashes :
             /\ (~Tracked(h) /\ h \in DOMAIN items') =>
                    items'[h].retryCount = 0
             /\ Tracked(h) =>
                    /\ h \in DOMAIN items'
                    /\ items'[h].retryCount =
                           IF ev'.op = "fail" /\ ev'.h = h
                           THEN items[h].retryCount + 1
                           ELSE items[h].retryCount]_vars
    /\ [](\A h \in Hashes :
             IF Tracked(h)
             THEN items[h].retryCount = outcomes[h].failed
             ELSE outcomes[h].failed = 0)

\* Attempts have kept failing after the permanent failure, and each one is
\* counted.
C16_Witness ==
    \E h \in Hashes :
        /\ Tracked(h)
        /\ ev.op = "fail" /\ ev.h = h
        /\ outcomes[h].failed > settings.maxRetries
        /\ items[h].retryCount = outcomes[h].failed

\* The results the claim calls malformed.
MalformedResults ==
    {"noText", "emptyText", "noSegments", "segmentsNotArray", "emptySegments"}

\* C17: a transcription call that resolves with a malformed result is
\* handled like a thrown error: the attempt ends, retryCount is incremented,
\* at maxRetries the record becomes FAILED with no timer and below it QUEUED
\* with one retry timer; the attempt does not go on to consolidation, writes
\* no output and does not leave the record COMPLETE.
C17_MalformedResultIsFailure ==
    [][\A h \in Hashes :
          (ev'.h = h /\ ev'.kind \in MalformedResults) =>
              /\ ev'.op = "fail"
              /\ inflight = inflight' (+) One([h |-> h, pc |-> "transcribe"])
              /\ transcribed' = transcribed
              /\ items'[h].retryCount = items[h].retryCount + 1
              /\ IF items'[h].retryCount >= settings.maxRetries
                 THEN /\ items'[h].status = FAILED
                      /\ timers' = timers
                 ELSE /\ items'[h].status = QUEUED
                      /\ \E t \in BagToSet(timers') :
                             /\ t.h = h
                             /\ t.due = now + calculateBackoffDelay(
                                                  items[h].retryCount)
                             /\ timers' = timers (+) One(t)]_vars

\* An empty segments array has used up the record's last retry.
C17_Witness ==
    /\ ev.op = "fail"
    /\ ev.kind = "emptySegments"
    /\ items[ev.h].status = FAILED
    /\ items[ev.h].retryCount = settings.maxRetries
    /\ ~outcomes[ev.h].rateLimited

\* C18: a record becomes COMPLETE only in the step in which the
\* consolidation of an attempt of it has succeeded (the output is written);
\* when consolidation throws, the attempt ends through the retry decision:
\* retryCount is incremented and the record is left QUEUED with a retry
\* timer, or FAILED at maxRetries - not TRANSCRIBING, not COMPLETE.
C18_CompleteOnlyAfterConsolidation ==
    [][\A h \in Hashes :
          /\ (/\ h \in DOMAIN items'
              /\ items'[h].status = COMPLETE
              /\ ~(Tracked(h) /\ items[h].status = COMPLETE)) =>
                 /\ ev'.op = "complete" /\ ev'.h = h
                 /\ inflight = inflight' (+) One([h |-> h, pc |-> "consolidate"])
                 /\ h \in transcribed'
          /\ (ev'.op = "fail" /\ ev'.h = h /\ ev'.kind = "vault") =>
                 /\ inflight = inflight' (+) One([h |-> h, pc |-> "consolidate"])
                 /\ items'[h].retryCount = items[h].retryCount + 1
                 /\ IF items'[h].retryCount >= settings.maxRetries
                    THEN items'[h].status = FAILED /\ timers' = timers
                    ELSE /\ items'[h].status = QUEUED
                         /\ \E t \in BagToSet(timers') :
                                t.h = h /\ timers' = timers (+) One(t)]_vars

\* Consolidation has thrown on the record's first attempt: QUEUED for a
\* retry.
C18_Witness ==
    /\ ev.op = "fail"
    /\ ev.kind = "vault"
    /\ items[ev.h].status = QUEUED
    /\ items[ev.h].retryCount = 1
    /\ \E t \in BagToSet(timers) : t.h = ev.h

\* The records an attempt is working on, going by their status.
Busy == {h \in DOMAIN items : items[h].status \in {PROCESSING_AUDIO, TRANSCRIBING}}

\* C19: at every moment at most 8 attempts are in flight; a record whose
\* status is PROCESSING_AUDIO or TRANSCRIBING has an attempt in flight, so at
\* most 8 records have such a status; while 8 attempts are in flight a
\* step starts an attempt only in place of one that has ended, so the
\* other tasks wait in the queue.
C19_AtMostEightInFlight ==
    /\ [](/\ BagCardinality(inflight) <= Concurrency
          /\ \A h \in Busy : InFlightOf(h, inflight) >= 1
          /\ Cardinality(Busy) <= Concurrency)
    /\ [][BagCardinality(inflight) = Concurrency =>
              /\ BagCardinality(inflight') <= Concurrency
              /\ (ev'.op \in {"queueFile", "resume", "pause", "scanVisit"} =>
                      inflight' = inflight)]_vars

\* Eight attempts are in flight, the queue is not paused, and a task waits.
C19_Witness ==
    /\ BagCardinality(inflight) = Concurrency
    /\ ~paused
    /\ queue # <<>>
    /\ Busy # {}

\* C20: a step of stop() or reset() (reset runs in queueUnprocessedFiles,
\* at layout-ready and on a settings save) removes the waiting tasks, all
\* of them and nothing else: the attempts in flight and the retry timers
\* are as before, and the records are unchanged - none deleted, no status,
\* retryCount or timestamp altered.
C20_ClearRemovesWaitingOnly ==
    [][ev'.op \in {"stop", "saveSettings", "onLayoutReady"} =>
          /\ queue' = <<>>
          /\ ev'.cleared = Len(queue)
          /\ ev'.started = {}
          /\ inflight' = inflight
          /\ timers' = timers
          /\ items' = items]_vars

\* stop() or reset() has dropped a waiting task while an attempt was in
\* flight on a record.
C20_Witness ==
    /\ ev.op \in {"stop", "saveSettings"}
    /\ ev.cleared > 0
    /\ inflight # EmptyBag
    /\ \E h \in DOMAIN items : items[h].status \in {PROCESSING_AUDIO, TRANSCRIBING}

\* C21: queueFile of a candidate that has no record leaves it with a
\* record, and while its task waits in the queue that record is QUEUED
\* with retryCount 0 (a task started in the same step has already moved
\* its record on to PROCESSING_AUDIO).
C21_QueueFileCreatesRecord ==
    [][\A h \in Hashes :
          (ev'.op = "queueFile" /\ ev'.h = h /\ ~Tracked(h)) =>
              /\ h \in DOMAIN items'
              /\ (WaitingOf(h, queue') > 0 =>
                      /\ items'[h].status = QUEUED
                      /\ items'[h].retryCount = 0)]_vars

\* C22: a failure that is answered with a retry (a backoff timer is set)
\* shows the user no notice, whatever the kind of error; a failure shows a
\* notice only when the record is given up as FAILED or the queue is paused.
C22_RetryShowsNoNotice ==
    [][\A h \in Hashes :
          (ev'.op = "fail" /\ ev'.h = h) =>
              /\ timers' # timers => ev'.notices = {}
              /\ ev'.notices # {} =>
                     \/ items'[h].status = FAILED
                     \/ paused' /\ ~paused]_vars

\* C23: each time the end of an attempt leaves the queue idle - no task
\* waiting, no attempt in flight - that very step begins a fresh scan
\* (queueFiles, over the directory and the outputs as they are then); no
\* user action or poller takes part.
C23_IdleTriggersScan ==
    [][(ev'.op \in {"complete", "fail"}
            /\ queue' = <<>> /\ inflight' = EmptyBag) =>
           /\ inflight # EmptyBag
           /\ userOps' = userOps
           /\ LET s == [todo |-> files', found |-> <<>>, tr |-> transcribed']
              IN scans' = scans (+) One(s)]_vars

\* The last attempt has completed and the idle scan is under way.
C23_Witness ==
    /\ ev.op = "complete"
    /\ queue = <<>>
    /\ inflight = EmptyBag
    /\ \E s \in BagToSet(scans) : s.found = <<>> /\ ev.h \in s.tr

\* C24: a discovery scan returns at most 24 candidates, however many
\* unprocessed files the watched directory holds: its list never grows
\* beyond 24, and the step that ends it adds at most 24 tasks.
C24_ScanReturnsAtMostChunk ==
    /\ [](\A s \in BagToSet(scans) : Len(s.found) <= FILE_CHUNK_LIMIT)
    /\ [][ev'.op \in {"scanVisit", "scanEmpty"} =>
              (Len(queue') + BagCardinality(inflight'))
                  - (Len(queue) + BagCardinality(inflight))
                      <= FILE_CHUNK_LIMIT]_vars

\* A scan of more than 24 unprocessed files has ended with 24 tasks added.
C24_Witness ==
    /\ ev.op = "scanVisit"
    /\ scans = EmptyBag
    /\ Cardinality(files \ transcribed) > FILE_CHUNK_LIMIT
    /\ Len(queue) + BagCardinality(inflight) = FILE_CHUNK_LIMIT
    /\ Cardinality({h \in DOMAIN items : TRUE}) = FILE_CHUNK_LIMIT

\* C25: waitForFileStability resolves only at a poll that sees a non-zero
\* size which every poll of the preceding stabilityDelayMs has seen too, so
\* never earlier than stabilityDelayMs after the last size change it saw;
\* a poll that sees size 0 discards the progress, and a file whose size
\* stays 0 is polled on and on.
C25_ResolvesOnlyWhenStable ==
    /\ [](stability.pc = "resolved" =>
            LET n == Len(stability.seen)
            IN /\ SawSize(n) /\ stability.seen[n].size # 0
               /\ \A k \in Polls :
                      PollTime(k) >= PollTime(n) - stability.stabilityDelayMs
                          => stability.seen[k] = stability.seen[n]
               /\ PollTime(n) - PollTime(LastChange)
                      >= stability.stabilityDelayMs)
    /\ []((Polls # {} /\ stability.seen[Len(stability.seen)] =
                              [kind |-> "size", size |-> 0]) =>
              /\ stability.pc = "polling"
              /\ stability.lastSize = Null
              /\ stability.stableStartTime = Null)

\* The call has resolved on a file that was empty, grew, shrank to empty
\* again and then kept its size.
C25_Witness ==
    /\ stability.pc = "resolved"
    /\ \E k \in Polls : k > 2 /\ stability.seen[k].size = 0
                          /\ stability.seen[k - 1].size # 0
    /\ LastChange > 3

\* C26: a poll that finds the file missing, or gets no stat, rejects the
\* call at that poll, with the error of its case; a call that has resolved
\* or rejected stays so and makes no further poll.
C26_RejectsOnMissingOrNoStat ==
    /\ [](Polls # {} =>
            LET last == stability.seen[Len(stability.seen)]
            IN /\ last.kind = "missing" =>
                      /\ stability.pc = "rejected"
                      /\ stability.error = "File does not exist"
               /\ last.kind = "nostat" =>
                      /\ stability.pc = "rejected"
                      /\ stability.error = "Could not get stats"
               /\ \A k \in Polls : k < Len(stability.seen) => SawSize(k))
    /\ [](stability.pc \in {"resolved", "rejected"} => ~stability.timer)
    /\ [][stability.pc \in {"resolved", "rejected"} =>
              stability' = stability]_vars

\* The file went missing after polls had begun to count its stable time.
C26_Witness ==
    /\ stability.pc = "rejected"
    /\ stability.error = "File does not exist"
    /\ stability.stableStartTime # Null
    /\ Len(stability.seen) > 2

\* The file is there at every poll and every poll sees another size than
\* the poll before it.
EveryPollDiffers ==
    \A k \in Polls :
        /\ SawSize(k)
        /\ k > 1 => stability.seen[k].size # stability.seen[k - 1].size

ConstantSize ==
    /\ Polls # {}
    /\ \A k \in Polls :
           /\ SawSize(k)
           /\ stability.seen[k].size # 0
           /\ stability.seen[k].size = stability.seen[1].size

\* C28: for a file of constant non-zero size from the first poll on, the
\* call resolves no earlier than stabilityDelayMs and no later than
\* stabilityDelayMs + checkIntervalMs after it was made, for every pair of
\* positive stabilityDelayMs and checkIntervalMs.
C28_ResolvesWithinDelayPlusInterval ==
    []((stability.pc = "resolved" /\ ConstantSize) =>
           LET resolvedAt == PollTime(Len(stability.seen))
           IN /\ resolvedAt >= stability.stabilityDelayMs
              /\ resolvedAt <= stability.stabilityDelayMs
                                   + stability.checkIntervalMs)

TimersOf(g, b) == {t \in BagToSet(b) : t.h = g}

LifecycleArrows ==
    {<<QUEUED, PROCESSING_AUDIO>>, <<PROCESSING_AUDIO, TRANSCRIBING>>,
     <<TRANSCRIBING, COMPLETE>>,
     <<PROCESSING_AUDIO, QUEUED>>, <<PROCESSING_AUDIO, FAILED>>,
     <<TRANSCRIBING, QUEUED>>, <<TRANSCRIBING, FAILED>>,
     <<FAILED, QUEUED>>}

\* C31: every status change of a record follows the lifecycle diagram:
\* PROCESSING_AUDIO is entered only from QUEUED, TRANSCRIBING only from
\* PROCESSING_AUDIO, COMPLETE only from TRANSCRIBING, a failure moves
\* PROCESSING_AUDIO or TRANSCRIBING to QUEUED or FAILED, and FAILED becomes
\* QUEUED on re-discovery.  A handler that sets a record QUEUED and starts
\* its task in the same step is taken as the two changes it makes.
C31_StatusFollowsLifecycle ==
    [][\A h \in DOMAIN items :
          LET from == items[h].status
              to == items'[h].status
          IN from # to =>
                 \/ <<from, to>> \in LifecycleArrows
                 \/ /\ h \in ev'.started
                    /\ to = PROCESSING_AUDIO
                    /\ <<from, QUEUED>> \in LifecycleArrows]_vars

\* Hashes with a pending backoff timer.
AwaitingRetry == {t.h : t \in BagToSet(timers)}

\* C32: a backoff wait occupies no worker slot: the step that handles a
\* failure and schedules the retry timer ends the failed attempt, so the
\* attempts in flight are one fewer (but for a task PQueue starts in the
\* released slot), and whatever number of timers is pending, a waiting task
\* is held back only by a pause or by Concurrency attempts in flight.
C32_BackoffHoldsNoSlot ==
    [][/\ (ev'.op = "fail" /\ BagCardinality(timers') > BagCardinality(timers))
          => /\ BagCardinality(inflight') =
                    BagCardinality(inflight) - 1 + Cardinality(ev'.started)
             /\ InFlightOf(ev'.h, inflight') =
                    InFlightOf(ev'.h, inflight) - 1
                        + (IF ev'.h \in ev'.started THEN 1 ELSE 0)
       /\ (queue' # <<>> /\ ~paused')
          => BagCardinality(inflight') >= Concurrency]_vars

\* The last attempt in flight has failed and two candidates await their
\* retries: no slot is taken.
C32_Witness ==
    /\ ev.op = "fail"
    /\ AwaitingRetry = Hashes
    /\ BagCardinality(timers) >= 2
    /\ inflight = EmptyBag

\* C33: the stability clock starts at the poll that observes a size change:
\* after a poll that sees a new non-zero size, stableStartTime is that
\* poll's time, and the first later poll that sees the same size at least
\* stabilityDelayMs after it resolves; so a file of constant non-zero size
\* is resolved at the first poll made stabilityDelayMs or more after the
\* call.
C33_ClockStartsAtChange ==
    [](Polls # {} =>
          LET n == Len(stability.seen)
          IN /\ (SawSize(n) /\ stability.seen[n].size # 0 /\ LastChange = n)
                    => stability.stableStartTime = PollTime(n)
             /\ (ConstantSize /\ PollTime(n) >= stability.stabilityDelayMs)
                    => stability.pc = "resolved")

\* C34: a file whose filename equals the original filename recorded in a
\* transcribed output is treated as transcribed without being hashed, and
\* neither discovery nor the file watcher ever queues it, also when its
\* content hash matches no output: a scan's list holds, and a step adds
\* tasks for, only hashes of files that match no output by name.
C34_NameMatchIsTranscribed ==
    /\ [](\A file \in files :
            NameMatched(file) =>
                LET candidate == getTranscribedStatus(file, transcribed)
                IN candidate.isTranscribed /\ ~candidate.hashed)
    /\ [](\A s \in ScanRecords : \A i \in 1..Len(s.found) :
            \E file \in files \ s.todo :
                file.hash = s.found[i] /\ ~NameMatched(file))
    /\ [][\A h \in Hashes :
            TasksOf(h, queue', inflight') > TasksOf(h, queue, inflight) =>
                \E file \in files : file.hash = h /\ ~NameMatched(file)]_vars

\* A scan has queued one file and left out another that matches an output
\* by name only, and the watcher has then skipped a file.
C34_Witness ==
    /\ ev.op = "watcherSkip"
    /\ scans = EmptyBag
    /\ inflight # EmptyBag
    /\ \E file \in files :
           /\ NameMatched(file)
           /\ ~FoundByHash(file.hash, transcribed)
           /\ TasksOf(file.hash, queue, inflight) = 0
           /\ file.hash \notin DOMAIN items

\* No attempt of h is in flight, none waits to start and no timer will add
\* one.
AtRest(h) ==
    /\ InFlightOf(h, inflight) = 0
    /\ WaitingOf(h, queue) = 0
    /\ TimersOf(h, timers) = {}

C36_RetryCountWithinMaxRetries ==
    /\ [](\A h \in DOMAIN items :
            items[h].retryCount <= settings.maxRetries)
    /\ [][\A h \in ev'.started :
            h \in DOMAIN items =>
                items[h].retryCount < settings.maxRetries]_vars

\* C37: the published state.running flag always equals "the queue is not
\* paused": after every operation (pause, resume, stop, reset, a status
\* change, the pause on a rate-limit failure) running is FALSE exactly when
\* the queue is paused.  Every write of state.running is followed by
\* notifySubscribers in the same handler, so the state last delivered has
\* the value of state.running.
C37_RunningIffNotPaused ==
    [](running = ~paused)

\* C38: after stop() (the plugin is unloaded) no new processing attempt
\* begins: attempts in flight may finish, but no step starts a task and no
\* record enters PROCESSING_AUDIO, neither from a pending backoff timer nor
\* from a discovery scan of the idle queue.
C38_NoAttemptAfterStop ==
    [][plugin = "unloaded" =>
          /\ ev'.started = {}
          /\ \A h \in DOMAIN items' :
                 items'[h].status = PROCESSING_AUDIO =>
                     /\ h \in DOMAIN items
                     /\ items[h].status = PROCESSING_AUDIO]_vars

\* C39: no orphaned QUEUED records: in every reachable state each record
\* with status QUEUED has a task waiting in the queue or a pending backoff
\* timer that will add one, also after reset() and stop().
C39_NoOrphanedQueued ==
    [](\A h \in DOMAIN items :
          items[h].status = QUEUED =>
              \/ WaitingOf(h, queue) > 0
              \/ TimersOf(h, timers) # {})

\* The last poll found the file with size c.
LastSaw(c) ==
    /\ Polls # {}
    /\ stability.seen[Len(stability.seen)] = [kind |-> "size", size |-> c]

====
